---- MODULE Spec2Model ----
(***************************************************************************)
(* hf_ingest.py: resumable traversal of the Tweede Kamer SyncFeed.         *)
(*                                                                         *)
(* fetch_all_docs(category) is modelled as a sequential process: it reads  *)
(* the skiptoken of the category (get_skiptoken), then loops over page     *)
(* fetches; every entry of a page is one iteration of the "for entry in    *)
(* entries" loop body; after the entries the feed-level "next" link is the *)
(* fallback; the loop is left by "break" (page fetch failure, no next      *)
(* link) or by an exception that nothing catches; after the loop the       *)
(* skiptoken is saved (save_skiptoken) and the documents are returned.     *)
(* __main__ then hands the returned documents to push_to_hf, which         *)
(* uploads them unless the list is empty.                                  *)
(*                                                                         *)
(* The feed and the enclosure servers are the environment.  The entries of *)
(* a page are revealed one per loop iteration and the feed-level link when *)
(* the entries are exhausted; a page that has been served is remembered in *)
(* feed when the specification keeps the feed fixed across runs.           *)
(***************************************************************************)
EXTENDS Integers, Sequences, FiniteSets, TLC

VARIABLES
    pc,                 \* position of the process in fetch_all_docs
    progress,           \* the sqlite table progress: category -> skiptoken
    current_skiptoken,  \* local of fetch_all_docs
    next_link_found,    \* local of fetch_all_docs, reset for every page
    all_docs,           \* local of fetch_all_docs, the returned list
    params,             \* query parameters of the last page request
    entry_count,        \* len(entries) of the current page
    n,                  \* entries of the current page the loop has finished
    feed,               \* pages served so far, by request key (fixed feed only)
    seen,               \* entries of the current page served so far (fixed feed only)
    cur,                \* the entry of the current iteration (fixed feed only)
    run,                \* number of the current run of the program
    fetches,            \* page requests issued in this run
    prev,               \* history: how the previous run ended
    startCursor,        \* history: value get_skiptoken returned in this run
    exitReason,         \* history: how the paging loop was left
    entryTok,           \* history: last token the entries of this page supplied
    feedTok,            \* history: token the feed-level link of this page supplied
    runTok,             \* history: token of the last page of this run that supplied one
    pageDocs,           \* history: all_docs at the end of the last finished page
    last,               \* history: what the current iteration met and did
    met,                \* history: the inputs the current iteration read
    reads,              \* history: calls of get_skiptoken in this run
    writes,             \* history: calls of save_skiptoken in this run
    main,               \* position of the program in __main__ and push_to_hf
    publish             \* history: the calls of push_to_hf and how the last ended

vars == <<pc, progress, current_skiptoken, next_link_found, all_docs, params,
          entry_count, n, feed, seen, cur, run, fetches, prev, startCursor,
          exitReason, entryTok, feedTok, runTok, pageDocs, last, met, reads,
          writes, main, publish>>

----------------------------------------------------------------------------
(* Bounds of the model *)

MaxToken == 0       \* the feed hands out the tokens 0..MaxToken and 42
MaxEntries == 2     \* entries per page
MaxLinks == 1       \* "next" links per entry
MaxPages == 2       \* page requests per run
MaxDocs == 2        \* documents per run
MaxRuns == 2        \* runs of the program under SpecRerun

Category == "Document"

Tokens == {42} \cup (0..MaxToken)

----------------------------------------------------------------------------
(* The inputs: links, nested content, entries, enclosure responses *)

\* href of a link with rel="next": the attribute may be missing, the URL may
\* lack "skiptoken=", the text after it may not be an integer, or it is one.
NoHref == [k |-> "nohref", v |-> 0]
NoSkip == [k |-> "noskiptoken", v |-> 0]
NotInt == [k |-> "notint", v |-> 0]
Tok(t) == [k |-> "int", v |-> t]

Hrefs == {NoHref, NoSkip, NotInt} \cup {Tok(t) : t \in Tokens}

\* the feed-level link found by root.find("atom:link[@rel='next']"), or none
NoLink == [k |-> "nolink", v |-> 0]
FeedLinks == {NoLink} \cup Hrefs

SeqsUpTo(S, k) == UNION {[1..m -> S] : m \in 0..k}

\* children of the nested content root: an element of the tk namespace, an
\* element of another namespace, or a comment (lxml yields comments too);
\* verwijderd is the value of the {tk}verwijderd attribute ("" when absent)
Children == [ns : {"tk", "other"}, verwijderd : {"true", "false"}]
              \cup {[ns |-> "comment", verwijderd |-> ""]}

\* entry.find("atom:content"): no element or no text, text that is not XML,
\* or XML with a root element and its children
NoContent == [kind |-> "none", verwijderd |-> "", children |-> <<>>]
Malformed == [kind |-> "malformed", verwijderd |-> "", children |-> <<>>]
Contents == {NoContent, Malformed}
              \cup [kind : {"xml"}, verwijderd : {"true", "false"},
                    children : SeqsUpTo(Children, 1)]

\* enclosure: href of the first link with rel="enclosure" ("" when the entry
\* has no such link or the link has no href)
Urls == {"", "https://tk/doc/1"}

\* the "next" links of one entry, in document order
LinkSeqs == SeqsUpTo(Hrefs, MaxLinks)

\* an entry: its "next" links, its nested content, its enclosure
NoEntry == [nexts |-> <<>>, content |-> NoContent, enclosure |-> ""]

\* response of an enclosure GET: a RequestException, or a 2xx response with
\* its Content-Type header ("" when absent), its body decoded as text
\* (dresp.text) and what pdftotext does with its bytes (exit status, stdout)
PdfHeaders == {"application/pdf", "Application/PDF"}
OtherHeaders == {"", "text/plain; charset=utf-8", "text/html", "application/xml",
                 "application/msword",
                 "application/vnd.openxmlformats-officedocument.wordprocessingml.document",
                 "image/png"}
Texts == {"", "hello"}
PdfRuns == [exit : {0}, stdout : {"", " \n", "hello"}] \cup [exit : {1}, stdout : {""}]
NoPdfRun == [exit |-> 1, stdout |-> ""]
FetchError == [status |-> "error", header |-> "", text |-> "", pdf |-> NoPdfRun]
\* the text of a PDF body and the pdftotext run on a body that is no PDF are
\* never read: one value each
Responses ==
    {FetchError}
      \cup [status : {"ok"}, header : PdfHeaders, text : {""}, pdf : PdfRuns]
      \cup [status : {"ok"}, header : OtherHeaders, text : Texts, pdf : {NoPdfRun}]

----------------------------------------------------------------------------
(* The cursor store *)

\* get_skiptoken: the row's skiptoken, -1 when the category has no row
get_skiptoken(table, category) ==
    IF category \in DOMAIN table THEN table[category] ELSE -1

\* a store that keeps the row a category already has (INSERT OR IGNORE)
save_skiptoken_keeps_row(table, category, skiptoken) ==
    IF category \in DOMAIN table THEN table
    ELSE [c \in DOMAIN table \cup {category} |->
            IF c = category THEN skiptoken ELSE table[c]]

\* save_skiptoken: REPLACE INTO progress(category, skiptoken)
save_skiptoken(table, category, skiptoken) ==
    [c \in DOMAIN table \cup {category} |->
        IF c = category THEN skiptoken ELSE table[c]]

\* params that leave the skiptoken out when the cursor is 0
RequestParamsPositive(category, skiptoken) ==
    IF skiptoken > 0
    THEN [category |-> category, skiptoken |-> skiptoken]
    ELSE [category |-> category]

\* params of a page request: skiptoken only when the cursor is >= 0
RequestParams(category, skiptoken) ==
    IF skiptoken >= 0
    THEN [category |-> category, skiptoken |-> skiptoken]
    ELSE [category |-> category]

\* the page a request asks for: the skiptoken sent, -1 for a request without
RequestKey(p) == IF "skiptoken" \in DOMAIN p THEN p.skiptoken ELSE -1
Keys == {-1} \cup {t \in Tokens : t >= 0}

----------------------------------------------------------------------------
(* Lines 106-114 and 203-210: the token of a "next" link *)

\* "skiptoken=" in href raises TypeError when href is None
HrefRaises(href) == href.k = "nohref"

\* a parse that takes a token from text that is no integer
SuppliesTokenLoose(href) == href.k \in {"int", "notint"}

\* the link supplies a token: "skiptoken=" is in the href and int() accepts
\* the text up to the next "&"
SuppliesToken(href) == href.k = "int"

\* a scan that keeps the first token it meets instead of the last
RECURSIVE ScanLinksKeepFirst(_, _, _, _)
ScanLinksKeepFirst(links, i, skiptoken, found) ==
    IF i > Len(links)
    THEN [raised |-> FALSE, skiptoken |-> skiptoken, found |-> found]
    ELSE IF HrefRaises(links[i])
    THEN [raised |-> TRUE, skiptoken |-> skiptoken, found |-> found]
    ELSE IF SuppliesToken(links[i]) /\ ~found
    THEN ScanLinksKeepFirst(links, i + 1, links[i].v, TRUE)
    ELSE ScanLinksKeepFirst(links, i + 1, skiptoken, found)

\* lines 106-114: the links of one entry, in document order; every link that
\* supplies a token overwrites current_skiptoken and sets next_link_found; a
\* link without href ends the scan with the exception
RECURSIVE ScanLinks(_, _, _, _)
ScanLinks(links, i, skiptoken, found) ==
    IF i > Len(links)
    THEN [raised |-> FALSE, skiptoken |-> skiptoken, found |-> found]
    ELSE IF HrefRaises(links[i])
    THEN [raised |-> TRUE, skiptoken |-> skiptoken, found |-> found]
    ELSE IF SuppliesToken(links[i])
    THEN ScanLinks(links, i + 1, links[i].v, TRUE)
    ELSE ScanLinks(links, i + 1, skiptoken, found)

----------------------------------------------------------------------------
(* Lines 117-140: the deletion filter *)

\* lines 127-133: the children of the nested root in document order; a comment
\* has no string tag, so tag.startswith raises AttributeError; a child of the
\* tk namespace whose tk:verwijderd is "true" marks the entry deleted
RECURSIVE ScanChildren(_, _)
ScanChildren(children, i) ==
    IF i > Len(children) THEN "live"
    ELSE IF children[i].ns = "comment" THEN "raised"
    ELSE IF children[i].ns = "tk" /\ children[i].verwijderd = "true" THEN "deleted"
    ELSE ScanChildren(children, i + 1)

\* a check whose except clause does not catch the XMLSyntaxError
NestedCheckUncaught(content) ==
    IF content.kind = "none" THEN "live"
    ELSE IF content.kind = "malformed" THEN "raised"
    ELSE ScanChildren(content.children, 1)

\* lines 121-136: "live", "deleted", "malformed" (XMLSyntaxError, caught) or
\* "raised" (an exception the except clause does not catch)
NestedCheck(content) ==
    IF content.kind = "none" THEN "live"
    ELSE IF content.kind = "malformed" THEN "malformed"
    ELSE ScanChildren(content.children, 1)

----------------------------------------------------------------------------
(* Lines 44-64 and 162-187: content type and normalisation *)

\* the header compared as the server sent it
ContentTypeAsSent(header) == IF header = "" THEN "unknown" ELSE header

\* line 163: header.split(';')[0].strip().lower(); "unknown" without header
ContentType(header) ==
    CASE header = "" -> "unknown"
      [] header = "Application/PDF" -> "application/pdf"
      [] header = "text/plain; charset=utf-8" -> "text/plain"
      [] OTHER -> header

\* actual_content_type.startswith("text/")
StartsWithText(ctype) == ctype \in {"text/plain", "text/html"}

\* str.strip() of the texts of the model
Strip(text) == IF text \in {"", " \n"} THEN "" ELSE text

\* convert_pdf_to_text: stdout of pdftotext, "" when it exits non-zero
convert_pdf_to_text(pdf) == IF pdf.exit = 0 THEN pdf.stdout ELSE ""

\* lines 168-185: the text of the Document, or the reason for skipping
Normalise(resp) ==
    LET ctype == ContentType(resp.header) IN
    IF ctype = "application/pdf"
    THEN LET text == convert_pdf_to_text(resp.pdf) IN
         IF Strip(text) = "" THEN [doc |-> FALSE, content |-> "", why |-> "emptypdf"]
         ELSE [doc |-> TRUE, content |-> text, why |-> "pdf"]
    ELSE IF StartsWithText(ctype) \/ ctype = "application/xml"
    THEN [doc |-> TRUE, content |-> resp.text, why |-> "text"]
    ELSE IF ctype \in {"application/msword",
            "application/vnd.openxmlformats-officedocument.wordprocessingml.document"}
    THEN [doc |-> FALSE, content |-> "", why |-> "unsupported"]
    ELSE [doc |-> FALSE, content |-> "", why |-> "unrecognized"]

\* line 187
Document(url, content) == [URL |-> url, content |-> content, Source |-> "Tweede Kamer"]

----------------------------------------------------------------------------
(* Lines 200-210: the feed-level link *)

\* a page end that never looks at the feed-level link
FeedLevelIgnored(link, skiptoken, found) ==
    [raised |-> FALSE, skiptoken |-> skiptoken, found |-> found]

\* looked at only when no entry supplied a token
FeedLevel(link, skiptoken, found) ==
    IF found THEN [raised |-> FALSE, skiptoken |-> skiptoken, found |-> TRUE]
    ELSE IF link.k = "nolink" THEN [raised |-> FALSE, skiptoken |-> skiptoken, found |-> FALSE]
    ELSE ScanLinks(<<link>>, 1, skiptoken, FALSE)

\* line 212: the loop goes on exactly when a token was found
HasMore(found) == found

----------------------------------------------------------------------------
(* History values *)

\* the integer tokens a sequence of "next" links supplies, in order
RECURSIVE TokensOf(_)
TokensOf(links) ==
    IF links = <<>> THEN <<>>
    ELSE (IF Head(links).k = "int" THEN <<Head(links).v>> ELSE <<>>) \o TokensOf(Tail(links))

\* the last token a sequence of links supplies, before when it supplies none
NoTok == [some |-> FALSE, v |-> 0]
LastToken(links, before) ==
    LET ts == TokensOf(links) IN
    IF ts = <<>> THEN before ELSE [some |-> TRUE, v |-> ts[Len(ts)]]

\* what the current iteration met (the deletion attribute on the nested root)
\* and how it ended
NoIteration == [rootDeleted |-> FALSE, outcome |-> "none"]
RootDeleted(content) == content.kind = "xml" /\ content.verwijderd = "true"

\* the inputs the current iteration read: the last token the "next" links
\* of the entry supply (until the deletion filter has run), whether the
\* nested content is text that is not XML, whether some immediate child of
\* the nested root carries
\* tk:verwijderd="true", the enclosure URL and the response of its GET while
\* the GET is being handled
NoResponse == [status |-> "none", header |-> "", text |-> "", pdf |-> NoPdfRun]
NoMet == [own |-> NoTok, malformed |-> FALSE, childDeleted |-> FALSE, url |-> "",
          resp |-> NoResponse]
ChildDeleted(content) ==
    /\ content.kind = "xml"
    /\ \E i \in DOMAIN content.children : content.children[i].verwijderd = "true"

\* push_to_hf has not been called
NoPublish == [calls |-> 0, docs |-> <<>>, outcome |-> "none"]

\* pages of the feed: not requested yet, a body that is not XML, or a page
Unseen == [kind |-> "unseen", entries |-> <<>>, link |-> NoLink]
MalformedPage == [kind |-> "malformed", entries |-> <<>>, link |-> NoLink]
Page(entries, link) == [kind |-> "page", entries |-> entries, link |-> link]

\* the feed that is kept fixed across runs is drawn from smaller sets: pages
\* of at most one entry, which has no "next" link and no nested content, and
\* a feed-level link that is absent or supplies a token
PageSizes(fixed) == IF fixed THEN 0..1 ELSE 0..MaxEntries
LinkChoices(fixed) == IF fixed THEN {<<>>} ELSE LinkSeqs
ContentChoices(fixed) == IF fixed THEN {NoContent} ELSE Contents
FeedLinkChoices(fixed) ==
    IF fixed THEN {NoLink} \cup {Tok(t) : t \in Tokens} ELSE FeedLinks

NoRun == [exitReason |-> "none", saved |-> -1]

----------------------------------------------------------------------------
(* The state machine *)

Init ==
    /\ pc = "init"
    /\ progress \in {[c \in {} |-> 0], [c \in {Category} |-> 42]}
    /\ current_skiptoken = -1
    /\ next_link_found = FALSE
    /\ all_docs = <<>>
    /\ params = [category |-> Category]
    /\ entry_count = 0
    /\ n = 0
    /\ feed = [k \in Keys |-> Unseen]
    /\ seen = <<>>
    /\ cur = NoEntry
    /\ run = 1
    /\ fetches = 0
    /\ prev = NoRun
    /\ startCursor = -1
    /\ exitReason = "none"
    /\ entryTok = NoTok
    /\ feedTok = NoTok
    /\ runTok = NoTok
    /\ pageDocs = <<>>
    /\ last = NoIteration
    /\ met = NoMet
    /\ reads = 0
    /\ writes = 0
    /\ main = "fetch_all_docs"
    /\ publish = NoPublish

\* lines 68-69
GetSkiptoken ==
    /\ pc = "init"
    /\ current_skiptoken' = get_skiptoken(progress, Category)
    /\ startCursor' = get_skiptoken(progress, Category)
    /\ reads' = reads + 1
    /\ all_docs' = <<>>
    /\ pc' = "fetch"
    /\ UNCHANGED <<progress, next_link_found, params, entry_count, n, feed, seen, cur,
                   run, fetches, prev, exitReason, entryTok, feedTok, runTok, pageDocs, last,
                   met, writes, main, publish>>

\* a page request whose RequestException is not caught
PageFetchErrorRaises == "raised"

\* lines 91-93: a RequestException of the page request is caught: break
PageFetchErrorExit == "save"

\* lines 77-93: the request raises a RequestException (network error, timeout,
\* HTTP error status)
FetchFail ==
    /\ pc = "fetch"
    /\ params' = RequestParams(Category, current_skiptoken)
    /\ fetches' = fetches + 1
    /\ exitReason' = "fetcherror"
    /\ pc' = PageFetchErrorExit
    /\ UNCHANGED <<progress, current_skiptoken, next_link_found, all_docs, entry_count,
                   n, feed, seen, cur, run, prev, startCursor, entryTok, feedTok, runTok,
                   pageDocs, last,
                   met, reads, writes, main, publish>>

\* lines 77-95: the request succeeds, the body is not well-formed XML:
\* etree.fromstring raises XMLSyntaxError outside every try
FetchMalformed(fixed) ==
    LET p == RequestParams(Category, current_skiptoken) IN
    /\ pc = "fetch"
    /\ fetches < MaxPages
    /\ feed[RequestKey(p)].kind \in {"unseen", "malformed"}
    /\ params' = p
    /\ fetches' = fetches + 1
    /\ feed' = IF fixed THEN [feed EXCEPT ![RequestKey(p)] = MalformedPage] ELSE feed
    /\ exitReason' = "xmlsyntaxerror"
    /\ pc' = "raised"
    /\ UNCHANGED <<progress, current_skiptoken, next_link_found, all_docs, entry_count,
                   n, seen, cur, run, prev, startCursor, entryTok, feedTok, runTok, pageDocs,
                   last,
                   met, reads, writes, main, publish>>

\* lines 77-101: the request succeeds and the body parses
FetchPage(fixed) ==
    LET p == RequestParams(Category, current_skiptoken)
        known == feed[RequestKey(p)]
    IN
    /\ pc = "fetch"
    /\ fetches < MaxPages
    /\ known.kind # "malformed"
    /\ \E c \in PageSizes(fixed) :
        /\ known.kind = "page" => c = Len(known.entries)
        /\ entry_count' = c
    /\ params' = p
    /\ fetches' = fetches + 1
    /\ n' = 0
    /\ next_link_found' = FALSE
    /\ seen' = <<>>
    /\ cur' = NoEntry
    /\ entryTok' = NoTok
    /\ feedTok' = NoTok
    /\ last' = NoIteration
    /\ met' = NoMet
    /\ pc' = "links"
    /\ UNCHANGED <<progress, current_skiptoken, all_docs, feed, run, prev, startCursor,
                   exitReason, runTok, pageDocs,
                   reads, writes, main, publish>>

\* lines 103-114: the iteration starts: the "next" links of the entry
ScanEntry(fixed) ==
    LET known == feed[RequestKey(params)] IN
    /\ pc = "links"
    /\ n < entry_count
    /\ \E links \in (IF known.kind = "page" THEN {known.entries[n + 1].nexts} ELSE LinkChoices(fixed)) :
        LET scan == ScanLinks(links, 1, current_skiptoken, next_link_found) IN
        /\ current_skiptoken' = scan.skiptoken
        /\ next_link_found' = scan.found
        /\ pc' = IF scan.raised THEN "raised" ELSE "filter"
        /\ exitReason' = IF scan.raised THEN "typeerror" ELSE exitReason
        /\ last' = [NoIteration EXCEPT !.outcome = IF scan.raised THEN "typeerror" ELSE "none"]
        /\ entryTok' = LastToken(links, entryTok)
        /\ met' = [NoMet EXCEPT !.own = LastToken(links, NoTok)]
        /\ cur' = IF fixed THEN [NoEntry EXCEPT !.nexts = links] ELSE cur
    /\ UNCHANGED <<progress, all_docs, params, entry_count, n, feed, seen, run, fetches,
                   prev, startCursor, feedTok, runTok, pageDocs,
                   reads, writes, main, publish>>

\* lines 117-140: the deletion filter: continue on malformed nested content
\* and on a deleted entry
FilterEntry(fixed) ==
    LET known == feed[RequestKey(params)] IN
    /\ pc = "filter"
    /\ \E content \in (IF known.kind = "page" THEN {known.entries[n + 1].content}
                       ELSE ContentChoices(fixed)) :
        LET nested == NestedCheck(content)
            entry == [cur EXCEPT !.content = content]
        IN
        /\ last' = [rootDeleted |-> RootDeleted(content),
                    outcome |-> CASE nested = "raised" -> "attributeerror"
                                  [] nested = "live" -> "none"
                                  [] OTHER -> nested]
        /\ met' = [NoMet EXCEPT !.malformed = (content = Malformed),
                                 !.childDeleted = ChildDeleted(content)]
        /\ pc' = CASE nested = "raised" -> "raised"
                   [] nested = "live" -> "request"
                   [] OTHER -> "links"
        /\ n' = IF nested \in {"malformed", "deleted"} THEN n + 1 ELSE n
        /\ exitReason' = IF nested = "raised" THEN "attributeerror" ELSE exitReason
        /\ cur' = IF fixed THEN entry ELSE cur
        /\ seen' = IF fixed /\ nested \in {"malformed", "deleted"}
                   THEN Append(seen, entry) ELSE seen
    /\ UNCHANGED <<progress, current_skiptoken, next_link_found, all_docs, params,
                   entry_count, feed, run, fetches, prev, startCursor, entryTok,
                   feedTok, runTok, pageDocs,
                   reads, writes, main, publish>>

\* an enclosure request whose RequestException is not caught
EnclosureErrorRaises == "raised"

\* lines 189-191: a RequestException of the enclosure request is caught:
\* continue
EnclosureErrorExit == "links"

\* lines 142-158: the first enclosure link; without one the iteration ends,
\* else the GET is issued and the server answers
RequestEnclosure(fixed) ==
    LET known == feed[RequestKey(params)] IN
    /\ pc = "request"
    /\ \E url \in (IF known.kind = "page" THEN {known.entries[n + 1].enclosure} ELSE Urls) :
        IF url = ""
        THEN /\ last' = [last EXCEPT !.outcome = "noenclosure"]
             /\ met' = met
             /\ seen' = IF fixed THEN Append(seen, cur) ELSE seen
             /\ n' = n + 1
             /\ pc' = "links"
             /\ cur' = cur
        ELSE \E resp \in Responses :
             /\ (resp.status = "ok" /\ Normalise(resp).doc) => Len(all_docs) < MaxDocs
             /\ met' = [met EXCEPT !.url = url, !.resp = resp]
             /\ cur' = IF fixed THEN [cur EXCEPT !.enclosure = url] ELSE cur
             /\ pc' = "enclosure"
             /\ UNCHANGED <<last, seen, n>>
    /\ UNCHANGED <<progress, current_skiptoken, next_link_found, all_docs, params,
                   entry_count, feed, run, fetches, prev, startCursor, exitReason,
                   entryTok, feedTok, runTok, pageDocs, reads, writes, main, publish>>

\* lines 156-191: the answer of the GET: the exception, or the content type,
\* the normalisation and the append
FetchEnclosure(fixed) ==
    LET resp == met.resp
        norm == Normalise(resp)
    IN
    /\ pc = "enclosure"
    /\ all_docs' = IF resp.status = "ok" /\ norm.doc
                   THEN Append(all_docs, Document(met.url, norm.content))
                   ELSE all_docs
    /\ last' = [last EXCEPT !.outcome =
                   IF resp.status = "error" THEN "fetcherror"
                   ELSE IF norm.doc THEN "document" ELSE norm.why]
    /\ met' = NoMet
    /\ seen' = IF fixed THEN Append(seen, cur) ELSE seen
    /\ pc' = IF resp.status = "error" THEN EnclosureErrorExit ELSE "links"
    /\ n' = n + 1
    /\ UNCHANGED <<progress, current_skiptoken, next_link_found, params, entry_count,
                   feed, cur, run, fetches, prev, startCursor, exitReason, entryTok,
                   feedTok, runTok, pageDocs, reads, writes, main, publish>>

\* lines 200-214: after the entries: the feed-level link, then break or go on
EndPage(fixed) ==
    LET known == feed[RequestKey(params)] IN
    /\ pc = "links"
    /\ n = entry_count
    /\ \E link \in (IF known.kind = "page" THEN {known.link} ELSE FeedLinkChoices(fixed)) :
        LET res == FeedLevel(link, current_skiptoken, next_link_found) IN
        /\ current_skiptoken' = res.skiptoken
        /\ next_link_found' = res.found
        /\ feedTok' = LastToken(IF link.k = "nolink" THEN <<>> ELSE <<link>>, NoTok)
        /\ runTok' = LET ft == LastToken(IF link.k = "nolink" THEN <<>> ELSE <<link>>, NoTok) IN
                     IF entryTok.some THEN entryTok ELSE IF ft.some THEN ft ELSE runTok
        /\ pageDocs' = all_docs
        /\ met' = NoMet
        /\ last' = NoIteration
        /\ pc' = IF res.raised THEN "raised"
                 ELSE IF HasMore(res.found) THEN "fetch" ELSE "save"
        /\ exitReason' = IF res.raised THEN "typeerror"
                         ELSE IF HasMore(res.found) THEN exitReason ELSE "eof"
        /\ feed' = IF fixed /\ ~res.raised
                   THEN [feed EXCEPT ![RequestKey(params)] = Page(seen, link)]
                   ELSE feed
    /\ UNCHANGED <<progress, all_docs, params, entry_count, n, seen, cur, run, fetches,
                   prev, startCursor, entryTok,
                   reads, writes, main, publish>>

\* a run that also saves after every page that moved the cursor
SaveSkiptokenEveryPage ==
    /\ \/ pc = "save" /\ pc' = "returned"
       \/ /\ pc = "fetch"
          /\ fetches >= 1
          /\ get_skiptoken(progress, Category) # current_skiptoken
          /\ pc' = pc
    /\ progress' = save_skiptoken(progress, Category, current_skiptoken)
    /\ writes' = writes + 1
    /\ UNCHANGED <<current_skiptoken, next_link_found, all_docs, params, entry_count, n,
                   feed, seen, cur, run, fetches, prev, startCursor, exitReason,
                   entryTok, feedTok, runTok, pageDocs, last, met, reads, main, publish>>

\* lines 216-223: after the loop
SaveSkiptoken ==
    /\ pc = "save"
    /\ progress' = save_skiptoken(progress, Category, current_skiptoken)
    /\ writes' = writes + 1
    /\ pc' = "returned"
    /\ UNCHANGED <<current_skiptoken, next_link_found, all_docs, params, entry_count, n,
                   feed, seen, cur, run, fetches, prev, startCursor, exitReason,
                   entryTok, feedTok, runTok, pageDocs, last,
                   met, reads, main, publish>>

\* line 259 and lines 226-232: __main__ hands the returned batch to
\* push_to_hf, which returns at once when the batch is empty
PushToHf ==
    /\ pc = "returned"
    /\ main = "fetch_all_docs"
    /\ publish' = [calls |-> publish.calls + 1, docs |-> all_docs,
                   outcome |-> IF all_docs = <<>> THEN "empty" ELSE "none"]
    /\ main' = IF all_docs = <<>> THEN "done" ELSE "upload"
    /\ UNCHANGED <<pc, progress, current_skiptoken, next_link_found, all_docs, params,
                   entry_count, n, feed, seen, cur, run, fetches, prev, startCursor,
                   exitReason, entryTok, feedTok, runTok, pageDocs, last, met, reads,
                   writes>>

\* an exception of the upload that is not caught
UploadErrorRaises == "raised"

\* lines 248-249: an exception inside the try of push_to_hf is caught and
\* printed; push_to_hf returns
UploadErrorExit == "done"

\* lines 234-249: the batch is written to data.parquet and uploaded, or one
\* of the two raises
Upload ==
    /\ main = "upload"
    /\ \E ok \in BOOLEAN :
        /\ publish' = [publish EXCEPT !.outcome = IF ok THEN "uploaded" ELSE "failed"]
        /\ main' = IF ok THEN "done" ELSE UploadErrorExit
    /\ UNCHANGED <<pc, progress, current_skiptoken, next_link_found, all_docs, params,
                   entry_count, n, feed, seen, cur, run, fetches, prev, startCursor,
                   exitReason, entryTok, feedTok, runTok, pageDocs, last, met, reads,
                   writes>>

\* the program is started again (lines 252-259), the feed being what it was
Rerun ==
    /\ main = "done" \/ pc = "raised"
    /\ run < MaxRuns
    /\ run' = run + 1
    /\ prev' = [exitReason |-> exitReason,
                saved |-> get_skiptoken(progress, Category)]
    /\ pc' = "init"
    /\ current_skiptoken' = -1
    /\ next_link_found' = FALSE
    /\ all_docs' = <<>>
    /\ params' = [category |-> Category]
    /\ entry_count' = 0
    /\ n' = 0
    /\ seen' = <<>>
    /\ cur' = NoEntry
    /\ fetches' = 0
    /\ startCursor' = -1
    /\ exitReason' = "none"
    /\ entryTok' = NoTok
    /\ feedTok' = NoTok
    /\ runTok' = NoTok
    /\ pageDocs' = <<>>
    /\ last' = NoIteration
    /\ met' = NoMet
    /\ reads' = 0
    /\ writes' = 0
    /\ main' = "fetch_all_docs"
    /\ publish' = NoPublish
    /\ UNCHANGED <<progress, feed>>

\* one run, against any feed
Next ==
    \/ GetSkiptoken
    \/ FetchFail
    \/ FetchMalformed(FALSE)
    \/ FetchPage(FALSE)
    \/ ScanEntry(FALSE)
    \/ FilterEntry(FALSE)
    \/ RequestEnclosure(FALSE)
    \/ FetchEnclosure(FALSE)
    \/ EndPage(FALSE)
    \/ SaveSkiptoken
    \/ PushToHf
    \/ Upload

Spec == Init /\ [][Next]_vars

\* the program is one sequential process that keeps running: every GET has
\* timeout=30 and returns or raises, so a step that can be taken is taken
FairSpec == Init /\ [][Next]_vars /\ WF_vars(Next)

\* runs one after the other, against a feed that does not change
NextRerun ==
    \/ GetSkiptoken
    \/ FetchFail
    \/ FetchMalformed(TRUE)
    \/ FetchPage(TRUE)
    \/ ScanEntry(TRUE)
    \/ FilterEntry(TRUE)
    \/ RequestEnclosure(TRUE)
    \/ FetchEnclosure(TRUE)
    \/ EndPage(TRUE)
    \/ SaveSkiptoken
    \/ PushToHf
    \/ Upload
    \/ Rerun

SpecRerun == Init /\ [][NextRerun]_vars

----------------------------------------------------------------------------
(* Properties *)

Stored == get_skiptoken(progress, Category)

\* the token the policy takes from the page just finished: the last one the
\* entries supplied, else the one of the feed-level link
TokenOnPage == entryTok.some \/ feedTok.some
PageToken == IF entryTok.some THEN entryTok.v ELSE feedTok.v

\* the paging loop has finished a page and goes on to the next request
GoesOn == pc = "fetch" /\ fetches >= 1

\* C1: the cursor a run saves is greater than or equal to the cursor it read
\* at its start.
C1_CursorMonotone ==
    pc = "returned" => Stored >= startCursor

\* C2: after a run that ended with end-of-feed, a second run against the same
\* feed returns an empty batch and leaves the stored cursor as it was.
C2_RerunIdempotent ==
    (run = 2 /\ pc = "returned" /\ prev.exitReason = "eof")
        => (all_docs = <<>> /\ Stored = prev.saved)

\* C3: an entry whose nested content root carries tk:verwijderd="true" never
\* produces a Document.
C3_RootDeletedNoDocument ==
    last.rootDeleted => last.outcome # "document"

\* C4: a page whose body is not well-formed XML ends the paging loop without
\* an exception leaving fetch_all_docs.
C4_MalformedPageGraceful ==
    exitReason = "xmlsyntaxerror" => pc \in {"save", "returned"}

\* C5: when the request of a page after the first fails, no exception leaves
\* fetch_all_docs, the batch is the one the pages before it produced and the
\* cursor, in memory and then in the store, is the token of the page before.
C5_PageFetchFailure ==
    exitReason = "fetcherror" =>
        /\ pc \in {"save", "returned"}
        /\ fetches >= 2 =>
            /\ TokenOnPage
            /\ all_docs = pageDocs
            /\ current_skiptoken = PageToken
            /\ pc = "returned" => (Category \in DOMAIN progress /\ progress[Category] = PageToken)

C5_Witness ==
    /\ pc = "returned"
    /\ exitReason = "fetcherror"
    /\ fetches = 2
    /\ Len(all_docs) = 1
    /\ startCursor = -1
    /\ Stored = 42

\* C6: an enclosure request that fails ends the iteration on its entry only:
\* the loop goes to the next entry of the page, the batch and the token
\* recorded so far are kept, and no exception leaves fetch_all_docs.
C6_EnclosureFailureIsolated ==
    [][(pc = "enclosure" /\ last'.outcome = "fetcherror") =>
          /\ pc' = "links"
          /\ n' = n + 1
          /\ n' <= entry_count
          /\ all_docs' = all_docs
          /\ current_skiptoken' = current_skiptoken
          /\ next_link_found' = next_link_found
          /\ entryTok.some => (next_link_found' /\ current_skiptoken' = entryTok.v)]_vars

\* the failing entry is not the last of its page and supplied a token
C6_Witness ==
    /\ pc = "links"
    /\ last.outcome = "fetcherror"
    /\ n < entry_count
    /\ entryTok.some
    /\ current_skiptoken = entryTok.v

\* C7: every Document of the batch has a non-empty content.
C7_NonEmptyContent ==
    \A i \in DOMAIN all_docs : all_docs[i].content # ""

\* C8: a page that was processed to its end stops the loop with end-of-feed
\* exactly when neither its entries nor its feed-level link supplied a token,
\* whatever the number of its entries.
C8_EndOfFeedSignal ==
    /\ exitReason = "eof" => (pc \in {"save", "returned"} /\ ~TokenOnPage)
    /\ GoesOn => TokenOnPage

\* a page without entries that goes on, a page with entries that ends the feed
C8_Witness ==
    /\ exitReason = "eof"
    /\ entry_count = MaxEntries
    /\ fetches = 2
    /\ Len(all_docs) = MaxDocs

\* C9: the token taken from a page is the last one its entries supplied; the
\* feed-level link is used only when the entries supplied none.
C9_TokenPolicy ==
    /\ (pc \in {"links", "filter", "request", "enclosure"} /\ entryTok.some)
           => (next_link_found /\ current_skiptoken = entryTok.v)
    /\ GoesOn => current_skiptoken = PageToken

\* the entries and the feed-level link supply different tokens
C9_Witness ==
    /\ GoesOn
    /\ entryTok.some
    /\ feedTok.some
    /\ entryTok.v # feedTok.v
    /\ current_skiptoken = entryTok.v

\* C10: the cursor follows the token of every page that supplies one, with or
\* without Documents, and the value the loop ends with is written to the
\* store, also when the batch is empty.
C10_CursorPersisted ==
    /\ GoesOn => (runTok.some /\ current_skiptoken = runTok.v)
    /\ pc = "returned" =>
          /\ Category \in DOMAIN progress
          /\ progress[Category] = current_skiptoken
          /\ progress[Category] = IF runTok.some THEN runTok.v ELSE startCursor

\* scenario B: no entries, feed-level token 42, then end-of-feed
C10_Witness ==
    /\ pc = "returned"
    /\ exitReason = "eof"
    /\ fetches = 2
    /\ entry_count = 0
    /\ startCursor = -1
    /\ all_docs = <<>>
    /\ runTok = [some |-> TRUE, v |-> 42]
    /\ Stored = 42

\* the responses that yield a Document: declared a PDF, in any case of the
\* letters, and pdftotext exits with 0 and prints more than white space; or
\* declared text/..., with or without parameters; or declared application/xml
YieldsDocument(resp) ==
    \/ /\ resp.header \in {"application/pdf", "Application/PDF"}
       /\ resp.pdf.exit = 0
       /\ resp.pdf.stdout \notin {"", " \n"}
    \/ resp.header \in {"text/plain; charset=utf-8", "text/html"}
    \/ resp.header = "application/xml"

\* C11: an enclosure that was fetched yields a Document exactly when it is a
\* PDF with text that is not blank, a text/... type or application/xml; a
\* Word type, any other type, no Content-Type, a PDF with blank text and a
\* PDF on which pdftotext fails yield none; in both cases the loop goes to
\* the next entry.
C11_ContentDispatch ==
    [][(pc = "enclosure" /\ met.resp.status = "ok") =>
          /\ all_docs' =
                IF YieldsDocument(met.resp)
                THEN Append(all_docs,
                        [URL |-> met.url,
                         content |-> IF met.resp.header \in PdfHeaders
                                     THEN met.resp.pdf.stdout ELSE met.resp.text,
                         Source |-> "Tweede Kamer"])
                ELSE all_docs
          /\ pc' = "links"
          /\ n' = n + 1
          /\ n' <= entry_count]_vars

\* a Document from the first entry, then a PDF on which pdftotext found no
\* text
C11_Witness ==
    /\ pc = "links"
    /\ last.outcome = "emptypdf"
    /\ Len(all_docs) = 1
    /\ n = 2

\* C12: an entry is treated as deleted when tk:verwijderd="true" is on any
\* immediate child of its nested content root: the loop is done with it after
\* the deletion check, no GET is issued for its enclosure.
C12_DeletedChildSkipped ==
    met.childDeleted => pc \notin {"request", "enclosure"}

\* the paging loop is running
Paging == pc \in {"fetch", "links", "filter", "request", "enclosure"}

\* C13: a run reads the store once, before its first page request, and
\* writes it at most once, after the paging loop; while the loop is running
\* nothing is written and the stored cursor is the one read at the start.
C13_StoreAccess ==
    /\ reads = (IF pc = "init" THEN 0 ELSE 1)
    /\ pc = "init" => fetches = 0
    /\ writes = (IF pc = "returned" THEN 1 ELSE 0)
    /\ Paging => Stored = startCursor

\* two page requests, and the one write after them changed the stored cursor
C13_Witness ==
    /\ pc = "returned"
    /\ reads = 1
    /\ writes = 1
    /\ fetches = 2
    /\ Stored # startCursor

\* C14: nested content that is not XML ends the iteration on its entry only:
\* no GET is issued for its enclosure and no Document is appended, no
\* exception leaves fetch_all_docs, the loop goes to the next entry of the
\* page, and the token the links of the entry supplied stays recorded.
C14_MalformedContentIsolated ==
    [][(pc = "filter" /\ met'.malformed) =>
          /\ pc' = "links"
          /\ n' = n + 1
          /\ n' <= entry_count
          /\ all_docs' = all_docs
          /\ current_skiptoken' = current_skiptoken
          /\ next_link_found' = next_link_found
          /\ met.own.some => (next_link_found' /\ current_skiptoken' = met.own.v)]_vars

\* the entry is not the last of its page and its links supplied a token
C14_Witness ==
    /\ pc = "links"
    /\ met.malformed
    /\ last.outcome = "malformed"
    /\ n = 1
    /\ n < entry_count
    /\ entryTok.some
    /\ current_skiptoken = entryTok.v
    /\ next_link_found

\* C15: the cursor is committed before the batch is handed to push_to_hf;
\* push_to_hf is called once in a program run that completes, with the batch
\* fetch_all_docs returned; an upload that fails raises nothing and leaves
\* the committed cursor as it is.
C15_CommitThenPublish ==
    /\ publish.calls <= 1
    /\ publish.calls = 1 =>
          /\ pc = "returned"
          /\ writes = 1
          /\ Category \in DOMAIN progress
          /\ progress[Category] = current_skiptoken
          /\ publish.docs = all_docs
    /\ main # "fetch_all_docs" => publish.calls = 1
    /\ main \in {"fetch_all_docs", "upload", "done"}
    /\ publish.outcome \in {"empty", "uploaded", "failed"} => main = "done"

\* the upload of a batch of two Documents failed after the token 42 was saved
C15_Witness ==
    /\ main = "done"
    /\ publish.outcome = "failed"
    /\ Len(publish.docs) = MaxDocs
    /\ startCursor = -1
    /\ Stored = 42

\* C16: every page request carries the category, and the skiptoken exactly
\* when the cursor is >= 0, with the cursor as its value; the cursor of the
\* first request is the one read from the store, the cursor of a later
\* request is the token taken from the page fetched just before.
C16_SkiptokenParam ==
    [][fetches' = fetches + 1 =>
          /\ "category" \in DOMAIN params'
          /\ params'.category = Category
          /\ ("skiptoken" \in DOMAIN params') <=> (current_skiptoken >= 0)
          /\ current_skiptoken >= 0 => params'.skiptoken = current_skiptoken
          /\ fetches = 0 => (current_skiptoken = startCursor /\ startCursor = Stored)
          /\ fetches >= 1 => (TokenOnPage /\ current_skiptoken = PageToken)]_vars

\* a first request without skiptoken, a second one with the token 0
C16_Witness ==
    /\ fetches = 2
    /\ startCursor = -1
    /\ params = [category |-> Category, skiptoken |-> 0]

\* C17: no two Documents of the batch have the same URL, whatever the feed
\* lists.
C17_UniqueUrls ==
    \A i, j \in DOMAIN all_docs : i # j => all_docs[i].URL # all_docs[j].URL

\* C18: a run all of whose pages are well-formed XML, and whose chain of
\* tokens ends (the model ends it with a failing request after MaxPages
\* requests at the latest), eventually leaves the paging loop and saves the
\* cursor, once.
C18_RunTerminates ==
    <>((pc = "returned" /\ writes = 1) \/ exitReason = "xmlsyntaxerror")

\* C19: the cursor is the value read from the store (-1 without a row) until
\* a "next" link of a fetched page supplies an integer token, and changes
\* only to such a token: links without skiptoken or with text that is no
\* integer leave it alone; the value written to the store is the cursor.
C19_CursorProvenance ==
    [][/\ current_skiptoken' # current_skiptoken =>
            \/ pc = "init" /\ current_skiptoken' = Stored
            \/ /\ pc = "links"
               /\ n < entry_count
               /\ met'.own.some
               /\ pc' # "raised" => current_skiptoken' = met'.own.v
            \/ /\ pc = "links"
               /\ n = entry_count
               /\ feedTok'.some
               /\ current_skiptoken' = feedTok'.v
       /\ writes' # writes =>
            /\ progress' = [c \in {Category} |-> current_skiptoken]
            /\ current_skiptoken = (IF runTok.some THEN runTok.v ELSE startCursor)
            /\ ~runTok.some => startCursor = Stored]_vars

\* a row is written with -1: the store was empty and the only page, with
\* all its entries, supplied no token
C19_Witness ==
    /\ pc = "returned"
    /\ progress = [c \in {Category} |-> -1]
    /\ startCursor = -1
    /\ fetches = 1
    /\ entry_count = MaxEntries
    /\ ~runTok.some

====
